---- MODULE Spec2Model ----
(***************************************************************************)
(* A model of the QBF pipeline of main.cpp: the formula is built with      *)
(* QBFPreprocessor::addQuantifierBlock / addClause, simplified by          *)
(* QBFPreprocessor::preprocess and decided by QBFSolver::solve.            *)
(*                                                                         *)
(* A literal is a record [variable, isNegated], a clause a sequence of     *)
(* literals, the matrix a sequence of clauses, the prefix a sequence of    *)
(* blocks [type, variables]; the unordered_maps are functions whose        *)
(* DOMAIN is the key set.                                                  *)
(*                                                                         *)
(* Two further programs are modelled on variables of their own: readQBF    *)
(* of main.cpp, which feeds a QDIMACS file to the preprocessor, and the    *)
(* generator blocksqbf.c, which writes one.                                *)
(***************************************************************************)
EXTENDS Integers, Sequences, FiniteSets, TLC

\* Bounds of the explored inputs.
MaxVar == 3
MaxClauses == 3
MaxLen == 2
MaxSolves == 2

VARIABLES
    pc,                \* position of the pipeline
    clauses,           \* QBFPreprocessor::clauses
    quantifierBlocks,  \* QBFPreprocessor::quantifierBlocks
    varToQuantifier,   \* QBFPreprocessor::varToQuantifier
    varToBlockIndex,   \* QBFPreprocessor::varToBlockIndex
    assignments,       \* QBFPreprocessor::assignments
    changed,           \* preprocess(): local changed
    hasEmptyClause,    \* preprocess(): local hasEmptyClause
    unitChanged,       \* unitPropagate(): local changed
    ppResult,          \* value returned by preprocess()
    matrix0,           \* history: the matrix when preprocess() was called
    solver,            \* the QBFSolver object
    stack,             \* the active solve_recursive frames, innermost last
    ret,               \* value returned by the solve_recursive call that just ended
    result,            \* value returned by solve()
    entry,             \* history: what the first solve() copied; the number of solve() calls
    ppCalls,           \* history: the number of preprocess() calls
    \* main.cpp, readQBF
    file,              \* the input file: whether it opens, and its lines
    lineNo,            \* the number of lines std::getline has read
    clauseCount,       \* readQBF: local clauseCount
    readResult,        \* value returned by readQBF
    \* blocksqbf.c
    num_blocks, num_clauses, block_sizes, perblock_nums,
    dup_resolve_limit, sort_clauses,   \* the options
    varmarks,          \* the variables marked as in the clause under construction
    clause_lits,       \* clause->lits as far as written (litpos is its length)
    block,             \* main: loop variable block
    blocklitcnt,       \* main: loop variable blocklitcnt
    curclause,         \* main: loop variable curclause
    clause_table,      \* the hash table: one chain of clauses per slot
    dup_resolve_tries,
    out,               \* the lines written to out
    dupRun             \* history: duplicates generated in a row since the last insertion

vars == <<pc, clauses, quantifierBlocks, varToQuantifier, varToBlockIndex,
          assignments, changed, hasEmptyClause, unitChanged, ppResult,
          matrix0, solver, stack, ret, result, entry, ppCalls,
          file, lineNo, clauseCount, readResult,
          num_blocks, num_clauses, block_sizes, perblock_nums, dup_resolve_limit,
          sort_clauses, varmarks, clause_lits, block, blocklitcnt, curclause,
          clause_table, dup_resolve_tries, out, dupRun>>

preVars == <<clauses, quantifierBlocks, varToQuantifier, varToBlockIndex, assignments>>
ppLocals == <<changed, hasEmptyClause, unitChanged, ppResult, matrix0, ppCalls>>
solveVars == <<solver, stack, ret, result, entry>>
readVars == <<file, lineNo, clauseCount, readResult>>
optVars == <<num_blocks, num_clauses, block_sizes, perblock_nums, dup_resolve_limit,
             sort_clauses>>
genVars == <<optVars, varmarks, clause_lits, block, blocklitcnt, curclause, clause_table,
             dup_resolve_tries, out, dupRun>>
\* What the pipeline of main.cpp leaves alone: the reader's locals once the file
\* is read, and the generator, which is a program of its own.
otherVars == <<readVars, genVars>>

----------------------------------------------------------------------------
\* Maps (std::unordered_map)

EmptyMap == [k \in {} |-> TRUE]

MapPut(m, k, v) == [x \in (DOMAIN m) \cup {k} |-> IF x = k THEN v ELSE m[x]]

MapErase(m, k) == [x \in (DOMAIN m) \ {k} |-> m[x]]

----------------------------------------------------------------------------
\* Literals and clauses

Literal(var, neg) == [variable |-> var, isNegated |-> neg]

Quantifier == {"EXISTS", "FORALL"}

ClauseVars(c) == {c[j].variable : j \in DOMAIN c}

MatrixVars(cls) == UNION {ClauseVars(cls[i]) : i \in DOMAIN cls}

RECURSIVE Flatten(_)
Flatten(ss) == IF ss = <<>> THEN <<>> ELSE Head(ss) \o Flatten(Tail(ss))

\* The variables of the prefix in declaration order.
RECURSIVE PrefixOrder(_)
PrefixOrder(blocks) ==
    IF blocks = <<>> THEN <<>>
    ELSE Head(blocks).variables \o PrefixOrder(Tail(blocks))

PrefixVars(blocks) ==
    UNION {{blocks[i].variables[j] : j \in DOMAIN blocks[i].variables} : i \in DOMAIN blocks}

HasEmpty(cls) == \E i \in DOMAIN cls : cls[i] = <<>>

----------------------------------------------------------------------------
\* QBFPreprocessor: helpers

\* isPureLiteral: lit's variable occurs, and never with the other polarity.
isPureLiteral(lit, cls) ==
    /\ \E i \in DOMAIN cls : \E j \in DOMAIN cls[i] : cls[i][j].variable = lit.variable
    /\ \A i \in DOMAIN cls : \A j \in DOMAIN cls[i] :
          cls[i][j].variable = lit.variable => cls[i][j].isNegated = lit.isNegated

\* Mutant of allEarlierVariablesAssigned: the earlier blocks are not looked at.
allEarlierVariablesAssignedAlways(blockIndex, blocks, asg) == TRUE

allEarlierVariablesAssigned(blockIndex, blocks, asg) ==
    \A i \in DOMAIN blocks :
        (i - 1) < blockIndex =>
            \A j \in DOMAIN blocks[i].variables : blocks[i].variables[j] \in DOMAIN asg

canEliminateVariable(variable, blocks, idx, asg) ==
    allEarlierVariablesAssigned(idx[variable], blocks, asg)

getRelevantClauses(var, cls) ==
    LET Has(c) == \E j \in DOMAIN c : c[j].variable = var
    IN  SelectSeq(cls, Has)

\* Mutant of ScanLiterals: an existential unit looks at the later blocks, as a
\* universal one does, so an unassigned earlier universal does not refuse it.
RECURSIVE ScanLiteralsLaterOnly(_, _, _, _, _, _, _)
ScanLiteralsLaterOnly(lits, i, var, vq, idx, qmap, asg) ==
    IF i > Len(lits) THEN "true"
    ELSE LET lit == lits[i] IN
         IF lit.variable = var THEN ScanLiteralsLaterOnly(lits, i + 1, var, vq, idx, qmap, asg)
         ELSE IF lit.variable \notin DOMAIN idx THEN "throw"
         ELSE IF idx[lit.variable] > idx[var]
              THEN IF lit.variable \notin DOMAIN qmap THEN "throw"
                   ELSE IF /\ qmap[lit.variable] = (IF vq = "EXISTS" THEN "FORALL" ELSE "EXISTS")
                           /\ lit.variable \notin DOMAIN asg
                        THEN "false"
                        ELSE ScanLiteralsLaterOnly(lits, i + 1, var, vq, idx, qmap, asg)
              ELSE ScanLiteralsLaterOnly(lits, i + 1, var, vq, idx, qmap, asg)

\* The scan of canPropagateVariable over the literals of the relevant clauses,
\* from literal i on. "throw" is the std::out_of_range of unordered_map::at.
RECURSIVE ScanLiterals(_, _, _, _, _, _, _)
ScanLiterals(lits, i, var, vq, idx, qmap, asg) ==
    IF i > Len(lits) THEN "true"
    ELSE LET lit == lits[i] IN
         IF lit.variable = var THEN ScanLiterals(lits, i + 1, var, vq, idx, qmap, asg)
         ELSE IF lit.variable \notin DOMAIN idx THEN "throw"
         ELSE IF (IF vq = "EXISTS" THEN idx[lit.variable] < idx[var]
                                   ELSE idx[lit.variable] > idx[var])
              THEN IF lit.variable \notin DOMAIN qmap THEN "throw"
                   ELSE IF /\ qmap[lit.variable] = (IF vq = "EXISTS" THEN "FORALL" ELSE "EXISTS")
                           /\ lit.variable \notin DOMAIN asg
                        THEN "false"
                        ELSE ScanLiterals(lits, i + 1, var, vq, idx, qmap, asg)
              ELSE ScanLiterals(lits, i + 1, var, vq, idx, qmap, asg)

\* Mutant of canPropagateVariable: every unit is propagated, as in a SAT solver.
canPropagateVariableAlways(var, relevantClauses, idx, qmap, asg) == "true"

\* canPropagateVariable: "true", "false", or "throw".
canPropagateVariable(var, relevantClauses, idx, qmap, asg) ==
    IF var \notin DOMAIN idx \/ var \notin DOMAIN qmap THEN "throw"
    ELSE ScanLiterals(Flatten(relevantClauses), 1, var, qmap[var], idx, qmap, asg)

\* unitPropagate, lines 226-234: the literals of the unit clauses.
UnitLiterals(cls) == {cls[i][1] : i \in {k \in DOMAIN cls : Len(cls[k]) = 1}}

\* varToBlockIndex[unit.variable] inserts 0 for a variable that has no entry.
IndexAfterCollect(cls, idx) ==
    [v \in (DOMAIN idx) \cup {l.variable : l \in UnitLiterals(cls)} |->
        IF v \in DOMAIN idx THEN idx[v] ELSE 0]

\* Mutant of PropagateUnit: the satisfied clauses go, the falsified literals stay.
PropagateUnitKeepFalsified(unit, cls) ==
    LET Satisfied(c) == \E j \in DOMAIN c :
            c[j].variable = unit.variable /\ c[j].isNegated = unit.isNegated
        Kept(c) == ~Satisfied(c)
    IN  SelectSeq(cls, Kept)

\* unitPropagate, lines 249-275: the clause set after propagating unit.
PropagateUnit(unit, cls) ==
    LET Satisfied(c) == \E j \in DOMAIN c :
            c[j].variable = unit.variable /\ c[j].isNegated = unit.isNegated
        Kept(c) == ~Satisfied(c)
        rest == SelectSeq(cls, Kept)
        NotFalsified(l) == ~(l.variable = unit.variable /\ l.isNegated # unit.isNegated)
    IN  [i \in DOMAIN rest |-> SelectSeq(rest[i], NotFalsified)]

\* Mutant of simplifyClauses: the literal test has the polarity the wrong way
\* round, so a clause is dropped on a false literal and loses its true ones.
simplifyClausesWrongPolarity(cls, asg) ==
    LET IsSat(c) == \E j \in DOMAIN c :
            c[j].variable \in DOMAIN asg /\ asg[c[j].variable] = c[j].isNegated
        Unassigned(l) == l.variable \notin DOMAIN asg
        Reduce(c) == SelectSeq(c, Unassigned)
        NotSat(c) == ~IsSat(c)
        open == SelectSeq(cls, NotSat)
        reduced == [i \in DOMAIN open |-> Reduce(open[i])]
    IN  IF HasEmpty(reduced) THEN << <<>> >> ELSE reduced

\* simplifyClauses: the clause set rebuilt under asg.
simplifyClauses(cls, asg) ==
    LET IsSat(c) == \E j \in DOMAIN c :
            c[j].variable \in DOMAIN asg /\ asg[c[j].variable] # c[j].isNegated
        Unassigned(l) == l.variable \notin DOMAIN asg
        Reduce(c) == SelectSeq(c, Unassigned)
        NotSat(c) == ~IsSat(c)
        open == SelectSeq(cls, NotSat)
        reduced == [i \in DOMAIN open |-> Reduce(open[i])]
    IN  IF HasEmpty(reduced) THEN << <<>> >> ELSE reduced

\* pureLiteralElimination, lines 306-329: assignments_to_make.
PureAssignments(cls, blocks, idx, asg) ==
    {<<v, isPureLiteral(Literal(v, FALSE), cls)>> :
        v \in {w \in PrefixVars(blocks) :
                 /\ w \notin DOMAIN asg
                 /\ canEliminateVariable(w, blocks, idx, asg)
                 /\ \/ isPureLiteral(Literal(w, FALSE), cls)
                    \/ isPureLiteral(Literal(w, TRUE), cls)}}

ApplyAssignments(asg, todo) ==
    [v \in (DOMAIN asg) \cup {a[1] : a \in todo} |->
        IF \E a \in todo : a[1] = v THEN (CHOOSE a \in todo : a[1] = v)[2] ELSE asg[v]]

----------------------------------------------------------------------------
\* Inputs

Lits(n) == {Literal(v, b) : v \in 1..n, b \in BOOLEAN}

\* The clauses offered to addClause over the variables 1..n: at most MaxLen
\* literals, on increasing variables.
ClausePool(n) ==
    {c \in UNION {[1..k -> Lits(n)] : k \in 0..MaxLen} :
        \A i \in DOMAIN c : \A j \in DOMAIN c : i < j => c[i].variable < c[j].variable}

NumDeclared == Cardinality(DOMAIN varToBlockIndex)

\* readQBF has not run: its file and locals.
ReadIdle ==
    /\ file = [open |-> TRUE, lines |-> <<>>]
    /\ lineNo = 0
    /\ clauseCount = 0
    /\ readResult = "NONE"

\* blocksqbf has not run: its statics are zero.
GenIdle ==
    /\ num_blocks = 0
    /\ num_clauses = 0
    /\ block_sizes = <<>>
    /\ perblock_nums = <<>>
    /\ dup_resolve_limit = 0
    /\ sort_clauses = FALSE
    /\ varmarks = {}
    /\ clause_lits = <<>>
    /\ block = 0
    /\ blocklitcnt = 0
    /\ curclause = 0
    /\ clause_table = <<>>
    /\ dup_resolve_tries = 0
    /\ out = <<>>
    /\ dupRun = 0

\* The QBFPreprocessor and the QBFSolver as constructed.
Constructed ==
    /\ clauses = <<>>
    /\ quantifierBlocks = <<>>
    /\ varToQuantifier = EmptyMap
    /\ varToBlockIndex = EmptyMap
    /\ assignments = EmptyMap
    /\ changed = FALSE
    /\ hasEmptyClause = FALSE
    /\ unitChanged = FALSE
    /\ ppResult = TRUE
    /\ matrix0 = <<>>
    /\ solver = [clauses |-> <<>>, assignments |-> EmptyMap, quantifierBlocks |-> <<>>,
                 varToQuantifier |-> EmptyMap, varToBlockIndex |-> EmptyMap, depth |-> 0]
    /\ stack = <<>>
    /\ ret = "NONE"
    /\ result = "NONE"
    /\ entry = [clauses |-> <<>>, assignments |-> EmptyMap, quantifierBlocks |-> <<>>,
                calls |-> 0]
    /\ ppCalls = 0

Init ==
    /\ pc = "build"
    /\ Constructed
    /\ ReadIdle
    /\ GenIdle

----------------------------------------------------------------------------
\* QBFPreprocessor: public interface

addQuantifierBlock(type, variables) ==
    LET blockIndex == Len(quantifierBlocks)
        new == {variables[j] : j \in DOMAIN variables}
    IN  /\ quantifierBlocks' = Append(quantifierBlocks, [type |-> type, variables |-> variables])
        /\ varToQuantifier' = [v \in (DOMAIN varToQuantifier) \cup new |->
                                  IF v \in new THEN type ELSE varToQuantifier[v]]
        /\ varToBlockIndex' = [v \in (DOMAIN varToBlockIndex) \cup new |->
                                  IF v \in new THEN blockIndex ELSE varToBlockIndex[v]]

addClause(clause) == clauses' = Append(clauses, clause)

\* readQBF hands the blocks over in prefix order, before the clauses; the
\* variables are numbered in prefix order.
AddQuantifierBlock ==
    /\ pc = "build"
    /\ clauses = <<>>
    /\ \E type \in Quantifier : \E k \in 1..(MaxVar - NumDeclared) :
          addQuantifierBlock(type, [j \in 1..k |-> NumDeclared + j])
    /\ UNCHANGED <<otherVars, pc, clauses, assignments, ppLocals, solveVars>>

AddClause ==
    /\ pc = "build"
    /\ Len(clauses) < MaxClauses
    /\ \E clause \in ClausePool(NumDeclared) : addClause(clause)
    /\ UNCHANGED <<otherVars, pc, quantifierBlocks, varToQuantifier, varToBlockIndex, assignments,
                   ppLocals, solveVars>>

\* preprocess() is called (main.cpp:215).
PreprocessCall ==
    /\ pc = "build"
    /\ pc' = "pp_loop"
    /\ hasEmptyClause' = FALSE
    /\ matrix0' = clauses
    /\ ppCalls' = ppCalls + 1
    /\ UNCHANGED <<otherVars, preVars, changed, unitChanged, ppResult, solveVars>>

\* preprocess(), lines 430-441: the head of the do-while body.
PreprocessLoop ==
    /\ pc = "pp_loop"
    /\ changed' = FALSE
    /\ IF HasEmpty(clauses)
       THEN /\ hasEmptyClause' = TRUE
            /\ pc' = "pp_return"
            /\ UNCHANGED unitChanged
       ELSE /\ pc' = "pp_unit"
            /\ unitChanged' = FALSE
            /\ UNCHANGED hasEmptyClause
    /\ UNCHANGED <<otherVars, preVars, ppResult, matrix0, ppCalls, solveVars>>

\* One pass of the do-while of unitPropagate. std::sort leaves the order of
\* units of the same block unspecified, so the unit the for loop stops at is
\* any not-refused unit of the innermost block that has one.
UnitCandidatesOf(cls, idx0, qmap, asg) ==
    LET idx == IndexAfterCollect(cls, idx0)
        Outcome(u) == canPropagateVariable(u.variable, getRelevantClauses(u.variable, cls),
                                           idx, qmap, asg)
        live == {u \in UnitLiterals(cls) :
                    u.variable \notin DOMAIN asg /\ Outcome(u) # "false"}
    IN  {u \in live : \A w \in live : idx[w.variable] <= idx[u.variable]}

UnitCandidates == UnitCandidatesOf(clauses, varToBlockIndex, varToQuantifier, assignments)

UnitPropagateAssign ==
    /\ pc = "pp_unit"
    /\ \E unit \in UnitCandidates :
          /\ varToBlockIndex' = IndexAfterCollect(clauses, varToBlockIndex)
          /\ IF canPropagateVariable(unit.variable, getRelevantClauses(unit.variable, clauses),
                                     varToBlockIndex', varToQuantifier, assignments) = "throw"
             THEN /\ pc' = "thrown"
                  /\ UNCHANGED <<clauses, assignments, unitChanged>>
             ELSE /\ assignments' = MapPut(assignments, unit.variable, ~unit.isNegated)
                  /\ clauses' = PropagateUnit(unit, clauses)
                  /\ unitChanged' = TRUE
                  /\ pc' = "pp_unit"
    /\ UNCHANGED <<otherVars, quantifierBlocks, varToQuantifier, changed, hasEmptyClause, ppResult,
                   matrix0, ppCalls, solveVars>>

\* Mutant of UnitPropagateReturn: preprocess() drops the value of unitPropagate()
\* instead of or-ing it into changed.
UnitPropagateReturnDropsChanged ==
    /\ pc = "pp_unit"
    /\ UnitCandidates = {}
    /\ varToBlockIndex' = IndexAfterCollect(clauses, varToBlockIndex)
    /\ changed' = changed
    /\ pc' = "pp_pure"
    /\ UNCHANGED <<otherVars, clauses, quantifierBlocks, varToQuantifier, assignments, hasEmptyClause,
                   unitChanged, ppResult, matrix0, ppCalls, solveVars>>

\* The pass that finds no unit to propagate ends unitPropagate.
UnitPropagateReturn ==
    /\ pc = "pp_unit"
    /\ UnitCandidates = {}
    /\ varToBlockIndex' = IndexAfterCollect(clauses, varToBlockIndex)
    /\ changed' = (changed \/ unitChanged)
    /\ pc' = "pp_pure"
    /\ UNCHANGED <<otherVars, clauses, quantifierBlocks, varToQuantifier, assignments, hasEmptyClause,
                   unitChanged, ppResult, matrix0, ppCalls, solveVars>>

\* Mutant of PureLiteralElimination: the sweep reports a change whether or not
\* it found a pure literal.
PureLiteralEliminationAlwaysChanged ==
    /\ pc = "pp_pure"
    /\ LET todo == PureAssignments(clauses, quantifierBlocks, varToBlockIndex, assignments)
       IN  /\ assignments' = ApplyAssignments(assignments, todo)
           /\ clauses' = simplifyClauses(clauses, assignments')
           /\ changed' = TRUE
           /\ pc' = "pp_loop"
    /\ UNCHANGED <<otherVars, quantifierBlocks, varToQuantifier, varToBlockIndex, hasEmptyClause,
                   unitChanged, ppResult, matrix0, ppCalls, solveVars>>

\* Mutant of PureLiteralElimination: preprocess() runs its loop body once, the
\* while (changed) test is gone.
PureLiteralEliminationOnce ==
    /\ pc = "pp_pure"
    /\ LET todo == PureAssignments(clauses, quantifierBlocks, varToBlockIndex, assignments)
           pureChanged == todo # {}
       IN  /\ assignments' = ApplyAssignments(assignments, todo)
           /\ clauses' = IF pureChanged THEN simplifyClauses(clauses, assignments') ELSE clauses
           /\ changed' = (changed \/ pureChanged)
           /\ pc' = "pp_return"
    /\ UNCHANGED <<otherVars, quantifierBlocks, varToQuantifier, varToBlockIndex, hasEmptyClause,
                   unitChanged, ppResult, matrix0, ppCalls, solveVars>>

\* pureLiteralElimination, and the while (changed) test of preprocess().
PureLiteralElimination ==
    /\ pc = "pp_pure"
    /\ LET todo == PureAssignments(clauses, quantifierBlocks, varToBlockIndex, assignments)
           pureChanged == todo # {}
       IN  /\ assignments' = ApplyAssignments(assignments, todo)
           /\ clauses' = IF pureChanged THEN simplifyClauses(clauses, assignments') ELSE clauses
           /\ changed' = (changed \/ pureChanged)
           /\ pc' = IF changed' THEN "pp_loop" ELSE "pp_return"
    /\ UNCHANGED <<otherVars, quantifierBlocks, varToQuantifier, varToBlockIndex, hasEmptyClause,
                   unitChanged, ppResult, matrix0, ppCalls, solveVars>>

\* preprocess(), line 451.
PreprocessValue(cls, flag) == (cls = <<>>) \/ (~flag /\ cls # <<>>)

PreprocessReturn ==
    /\ pc = "pp_return"
    /\ ppResult' = PreprocessValue(clauses, hasEmptyClause)
    /\ pc' = "preprocessed"
    /\ UNCHANGED <<otherVars, preVars, changed, hasEmptyClause, unitChanged, matrix0, ppCalls, solveVars>>

----------------------------------------------------------------------------
\* QBFSolver: helpers

\* Mutant of hasEmptyClauseS: an empty clause goes unnoticed.
hasEmptyClauseNever(cls) == FALSE

hasEmptyClauseS(cls) == \E i \in DOMAIN cls : Len(cls[i]) = 0

allClausesSatisfied(cls) == Len(cls) = 0

\* findNextUnassignedVar: the first unassigned variable in prefix order, or -1.
findNextUnassignedVar(blocks, asg) ==
    LET order == PrefixOrder(blocks)
        free == {i \in DOMAIN order : order[i] \notin DOMAIN asg}
    IN  IF free = {} THEN -1
        ELSE order[CHOOSE i \in free : \A k \in free : i <= k]

\* Mutant of assignVariable: the assignment is not recorded.
assignVariableLost(asg, var, value) == asg

assignVariable(asg, var, value) == MapPut(asg, var, value)

unassignVariable(asg, var) == MapErase(asg, var)

simplifyWithAssignment(cls, var, value) ==
    LET Satisfied(c) == \E j \in DOMAIN c :
            c[j].variable = var /\ value # c[j].isNegated
        Open(c) == ~Satisfied(c)
        rest == SelectSeq(cls, Open)
        Other(l) == l.variable # var
    IN  [i \in DOMAIN rest |-> SelectSeq(rest[i], Other)]

restoreClauses(saved) == saved

\* solve(), lines 101-108: the lookup maps rebuilt from the blocks; a later
\* block overwrites an earlier one.
LastBlockOf(blocks, v) ==
    CHOOSE i \in DOMAIN blocks :
        /\ \E j \in DOMAIN blocks[i].variables : blocks[i].variables[j] = v
        /\ \A k \in DOMAIN blocks :
              (\E j \in DOMAIN blocks[k].variables : blocks[k].variables[j] = v) => k <= i

BuildVarToQuantifier(blocks) == [v \in PrefixVars(blocks) |-> blocks[LastBlockOf(blocks, v)].type]

BuildVarToBlockIndex(blocks) == [v \in PrefixVars(blocks) |-> LastBlockOf(blocks, v) - 1]

----------------------------------------------------------------------------
\* QBFSolver: solve and solve_recursive

\* Mutant of Solve: it takes the clause set out of the preprocessor instead of
\* copying it.
SolveMovingClauses ==
    /\ pc = "preprocessed" \/ (pc = "done" /\ entry.calls < MaxSolves)
    /\ solver' = [clauses |-> clauses,
                  assignments |-> assignments,
                  quantifierBlocks |-> quantifierBlocks,
                  varToQuantifier |-> BuildVarToQuantifier(quantifierBlocks),
                  varToBlockIndex |-> BuildVarToBlockIndex(quantifierBlocks),
                  depth |-> 0]
    /\ stack' = <<>>
    /\ ret' = "NONE"
    /\ entry' = IF entry.calls = 0
                THEN [clauses |-> clauses, assignments |-> assignments,
                      quantifierBlocks |-> quantifierBlocks, calls |-> 1]
                ELSE [entry EXCEPT !.calls = @ + 1]
    /\ IF Len(clauses) = 0
       THEN result' = "SAT" /\ pc' = "done"
       ELSE IF hasEmptyClauseS(clauses)
            THEN result' = "UNSAT" /\ pc' = "done"
            ELSE result' = "NONE" /\ pc' = "call"
    /\ clauses' = <<>>
    /\ UNCHANGED <<otherVars, quantifierBlocks, varToQuantifier, varToBlockIndex, assignments, ppLocals>>

\* solve(), lines 93-127; it may be called again when it has returned.
Solve ==
    /\ pc = "preprocessed" \/ (pc = "done" /\ entry.calls < MaxSolves)
    /\ solver' = [clauses |-> clauses,
                  assignments |-> assignments,
                  quantifierBlocks |-> quantifierBlocks,
                  varToQuantifier |-> BuildVarToQuantifier(quantifierBlocks),
                  varToBlockIndex |-> BuildVarToBlockIndex(quantifierBlocks),
                  depth |-> 0]
    /\ stack' = <<>>
    /\ ret' = "NONE"
    /\ entry' = IF entry.calls = 0
                THEN [clauses |-> clauses, assignments |-> assignments,
                      quantifierBlocks |-> quantifierBlocks, calls |-> 1]
                ELSE [entry EXCEPT !.calls = @ + 1]
    /\ IF Len(clauses) = 0
       THEN result' = "SAT" /\ pc' = "done"
       ELSE IF hasEmptyClauseS(clauses)
            THEN result' = "UNSAT" /\ pc' = "done"
            ELSE result' = "NONE" /\ pc' = "call"
    /\ UNCHANGED <<otherVars, preVars, ppLocals>>

\* Mutant of BaseCase: the test of line 256 is the wrong way round.
BaseCaseLeafSwapped(s) ==
    IF hasEmptyClauseS(s.clauses) THEN "UNSAT"
    ELSE IF allClausesSatisfied(s.clauses) THEN "SAT"
    ELSE IF findNextUnassignedVar(s.quantifierBlocks, s.assignments) = -1
         THEN (IF hasEmptyClauseS(s.clauses) THEN "SAT" ELSE "UNSAT")
         ELSE "NONE"

\* The value of a solve_recursive call that returns before deciding a
\* variable (lines 239-257), or "NONE" when the call goes on to decide one.
BaseCase(s) ==
    IF hasEmptyClauseS(s.clauses) THEN "UNSAT"
    ELSE IF allClausesSatisfied(s.clauses) THEN "SAT"
    ELSE IF findNextUnassignedVar(s.quantifierBlocks, s.assignments) = -1
         THEN (IF hasEmptyClauseS(s.clauses) THEN "UNSAT" ELSE "SAT")
         ELSE "NONE"

SolveRecursiveBase ==
    /\ pc = "call"
    /\ BaseCase(solver) # "NONE"
    /\ ret' = BaseCase(solver)
    /\ pc' = "return"
    /\ UNCHANGED <<otherVars, preVars, ppLocals, entry, solver, stack, result>>

\* Lines 259-281 and 317-322: decide var, true first.
SolveRecursiveDecide ==
    /\ pc = "call"
    /\ BaseCase(solver) = "NONE"
    /\ LET var == findNextUnassignedVar(solver.quantifierBlocks, solver.assignments)
       IN  /\ stack' = Append(stack, [var |-> var,
                                      qtype |-> solver.varToQuantifier[var],
                                      savedClauses |-> solver.clauses,
                                      branch |-> 1,
                                      assignmentsBefore |-> solver.assignments])
           /\ solver' = [solver EXCEPT
                            !.depth = @ + 1,
                            !.assignments = assignVariable(@, var, TRUE),
                            !.clauses = simplifyWithAssignment(@, var, TRUE)]
    /\ pc' = "call"
    /\ UNCHANGED <<otherVars, preVars, ppLocals, entry, ret, result>>

Top == stack[Len(stack)]

Pop == SubSeq(stack, 1, Len(stack) - 1)

\* The recursive call's value lets the frame return SAT (lines 282-285,
\* 297-300 and 351-354): nothing is undone.
FrameSucceeds(f, r) ==
    r = "SAT" /\ (f.qtype = "EXISTS" \/ f.branch = 2)

ReturnSat ==
    /\ pc = "return"
    /\ stack # <<>>
    /\ FrameSucceeds(Top, ret)
    /\ solver' = [solver EXCEPT !.depth = @ - 1]
    /\ stack' = Pop
    /\ ret' = "SAT"
    /\ pc' = "return"
    /\ UNCHANGED <<otherVars, preVars, ppLocals, entry, result>>

\* unassignVariable(var); restoreClauses(savedClauses) (lines 289-290,
\* 304-305, 326-327, 334-335, 345-346).
Backtrack ==
    /\ pc = "return"
    /\ stack # <<>>
    /\ ~FrameSucceeds(Top, ret)
    /\ solver' = [solver EXCEPT
                     !.assignments = unassignVariable(@, Top.var),
                     !.clauses = restoreClauses(Top.savedClauses)]
    /\ pc' = "backtracked"
    /\ UNCHANGED <<otherVars, preVars, ppLocals, entry, stack, ret, result>>

\* After the undo the frame tries false when the first branch did not settle it.
TriesSecond(f, r) ==
    f.branch = 1 /\ (f.qtype = "EXISTS" \/ r = "SAT")

TrySecond ==
    /\ pc = "backtracked"
    /\ TriesSecond(Top, ret)
    /\ solver' = [solver EXCEPT
                     !.assignments = assignVariable(@, Top.var, FALSE),
                     !.clauses = simplifyWithAssignment(@, Top.var, FALSE)]
    /\ stack' = [stack EXCEPT ![Len(stack)].branch = 2]
    /\ pc' = "call"
    /\ UNCHANGED <<otherVars, preVars, ppLocals, entry, ret, result>>

ReturnUnsat ==
    /\ pc = "backtracked"
    /\ ~TriesSecond(Top, ret)
    /\ solver' = [solver EXCEPT !.depth = @ - 1]
    /\ stack' = Pop
    /\ ret' = "UNSAT"
    /\ pc' = "return"
    /\ UNCHANGED <<otherVars, preVars, ppLocals, entry, result>>

\* The outermost solve_recursive returns to solve().
SolveReturn ==
    /\ pc = "return"
    /\ stack = <<>>
    /\ result' = ret
    /\ pc' = "done"
    /\ UNCHANGED <<otherVars, preVars, ppLocals, entry, solver, stack, ret>>

Next ==
    \/ AddQuantifierBlock
    \/ AddClause
    \/ PreprocessCall
    \/ PreprocessLoop
    \/ UnitPropagateAssign
    \/ UnitPropagateReturn
    \/ PureLiteralElimination
    \/ PreprocessReturn
    \/ Solve
    \/ SolveRecursiveBase
    \/ SolveRecursiveDecide
    \/ ReturnSat
    \/ Backtrack
    \/ TrySecond
    \/ ReturnUnsat
    \/ SolveReturn

Spec == Init /\ [][Next]_vars

----------------------------------------------------------------------------
\* The pipeline on longer clauses: the prefix alternates single-variable
\* blocks, existential first; the clauses are added in increasing order of
\* ClauseRank, and a clause of LongLen literals is the last one.

LongVar == 4
LongClauses == 4
LongLen == 3

ClausePoolLen(n, len) ==
    {c \in UNION {[1..k -> Lits(n)] : k \in 0..len} :
        \A i \in DOMAIN c : \A j \in DOMAIN c : i < j => c[i].variable < c[j].variable}

RECURSIVE ClauseRank(_)
ClauseRank(c) ==
    IF c = <<>> THEN 0
    ELSE (2 * Head(c).variable - (IF Head(c).isNegated THEN 0 ELSE 1))
           + (2 * LongVar + 1) * ClauseRank(Tail(c))

AddQuantifierBlockLong ==
    /\ pc = "build"
    /\ clauses = <<>>
    /\ NumDeclared < LongVar
    /\ addQuantifierBlock(IF NumDeclared % 2 = 0 THEN "EXISTS" ELSE "FORALL",
                          <<NumDeclared + 1>>)
    /\ UNCHANGED <<otherVars, pc, clauses, assignments, ppLocals, solveVars>>

AddClauseLong ==
    /\ pc = "build"
    /\ Len(clauses) < LongClauses
    /\ \E clause \in ClausePoolLen(NumDeclared, LongLen) :
          /\ IF clauses = <<>> THEN TRUE
             ELSE /\ Len(clauses[Len(clauses)]) < LongLen
                  /\ ClauseRank(clause) > ClauseRank(clauses[Len(clauses)])
          /\ addClause(clause)
    /\ UNCHANGED <<otherVars, pc, quantifierBlocks, varToQuantifier, varToBlockIndex, assignments,
                   ppLocals, solveVars>>

NextLong ==
    \/ AddQuantifierBlockLong
    \/ AddClauseLong
    \/ PreprocessCall
    \/ PreprocessLoop
    \/ UnitPropagateAssign
    \/ UnitPropagateReturn
    \/ PureLiteralElimination
    \/ PreprocessReturn
    \/ Solve
    \/ SolveRecursiveBase
    \/ SolveRecursiveDecide
    \/ ReturnSat
    \/ Backtrack
    \/ TrySecond
    \/ ReturnUnsat
    \/ SolveReturn

SpecLong == Init /\ [][NextLong]_vars

----------------------------------------------------------------------------
\* The pipeline on everything addQuantifierBlock and addClause accept: block
\* and clause lines in any order (readQBF takes them as they come), a
\* variable listed in more than one block, a clause variable listed in none.

WideVar == 3
WideBlocks == 2
WideClauses == 2
WideLen == 2

VarLists(n) ==
    {s \in UNION {[1..k -> 1..n] : k \in 1..n} :
        \A i \in DOMAIN s : \A j \in DOMAIN s : i < j => s[i] < s[j]}

AddQuantifierBlockWide ==
    /\ pc = "build"
    /\ Len(quantifierBlocks) < WideBlocks
    /\ \E type \in Quantifier : \E variables \in VarLists(WideVar) :
          addQuantifierBlock(type, variables)
    /\ UNCHANGED <<otherVars, pc, clauses, assignments, ppLocals, solveVars>>

AddClauseWide ==
    /\ pc = "build"
    /\ Len(clauses) < WideClauses
    /\ \E clause \in ClausePoolLen(WideVar, WideLen) : addClause(clause)
    /\ UNCHANGED <<otherVars, pc, quantifierBlocks, varToQuantifier, varToBlockIndex, assignments,
                   ppLocals, solveVars>>

NextWide ==
    \/ AddQuantifierBlockWide
    \/ AddClauseWide
    \/ PreprocessCall
    \/ PreprocessLoop
    \/ UnitPropagateAssign
    \/ UnitPropagateReturn
    \/ PureLiteralElimination
    \/ PreprocessReturn
    \/ Solve
    \/ SolveRecursiveBase
    \/ SolveRecursiveDecide
    \/ ReturnSat
    \/ Backtrack
    \/ TrySecond
    \/ ReturnUnsat
    \/ SolveReturn

SpecWide == Init /\ [][NextWide]_vars

----------------------------------------------------------------------------
\* preprocess() called again on the object it has returned from.

MaxPreprocess == 2

PreprocessAgain ==
    /\ pc = "preprocessed"
    /\ ppCalls < MaxPreprocess
    /\ pc' = "pp_loop"
    /\ hasEmptyClause' = FALSE
    /\ matrix0' = clauses
    /\ ppCalls' = ppCalls + 1
    /\ UNCHANGED <<otherVars, preVars, changed, unitChanged, ppResult, solveVars>>

NextAgain ==
    \/ AddQuantifierBlock
    \/ AddClause
    \/ PreprocessCall
    \/ PreprocessLoop
    \/ UnitPropagateAssign
    \/ UnitPropagateReturn
    \/ PureLiteralElimination
    \/ PreprocessReturn
    \/ PreprocessAgain

SpecAgain == Init /\ [][NextAgain]_vars

\* The program is sequential and runs each operation to its end: a step that
\* can be taken is taken.
FairSpec == Spec /\ WF_vars(Next)

----------------------------------------------------------------------------
\* main.cpp: readQBF on a QDIMACS file
\*
\* A line is [type, ints]: type is the class of its first non-blank character
\* ("c", "p", "a", "e", "num" for '-' or '1'..'9', "other" for anything else,
\* "blank" for a line of white space only, "empty" for the empty line) and
\* ints are the integers operator>> reads from it, after the letter on an
\* "a" or "e" line and from the start of the line on a "num" line.

MaxLines == 3

LineInts == {<<1, 0>>, <<2, 0>>, <<1, 2, 0>>, <<1>>}

ClauseInts == {<<1, 0>>, <<-1, 2, 0>>, <<-2, 0, 1>>, <<2>>}

LinePool ==
    {[type |-> t, ints |-> <<>>] : t \in {"c", "p", "other", "blank", "empty"}}
        \cup {[type |-> "other", ints |-> <<0>>]}
        \cup {[type |-> t, ints |-> i] : t \in {"a", "e"}, i \in LineInts}
        \cup {[type |-> "num", ints |-> i] : i \in ClauseInts}

Files ==
    {[open |-> FALSE, lines |-> <<>>]}
        \cup {[open |-> TRUE, lines |-> l] : l \in UNION {[1..k -> LinePool] : k \in 0..MaxLines}}

\* while (iss >> var && var != 0): the integers up to the first 0.
RECURSIVE ReadInts(_)
ReadInts(ints) ==
    IF ints = <<>> \/ Head(ints) = 0 THEN <<>>
    ELSE <<Head(ints)>> \o ReadInts(Tail(ints))

\* Literal(std::abs(var), var < 0) for each integer read.
ReadClause(ints) ==
    LET read == ReadInts(ints)
    IN  [j \in DOMAIN read |-> Literal(IF read[j] < 0 THEN -read[j] ELSE read[j], read[j] < 0)]

\* The value of the local char type after iss >> type. On a line of white
\* space the extraction fails and type is read uninitialized.
TypeRead(line) ==
    IF line.type = "blank" THEN {"c", "p", "a", "e", "num", "other"}
    ELSE {line.type}

InitRead ==
    /\ pc = "main"
    /\ Constructed
    /\ file \in Files
    /\ lineNo = 0
    /\ clauseCount = 0
    /\ readResult = "NONE"
    /\ GenIdle

\* readQBF, lines 77-81; main, lines 196-198.
ReadOpen ==
    /\ pc = "main"
    /\ IF file.open
       THEN pc' = "read" /\ UNCHANGED readResult
       ELSE pc' = "exit" /\ readResult' = "false"
    /\ UNCHANGED <<preVars, ppLocals, solveVars, genVars, file, lineNo, clauseCount>>

\* One turn of the while (std::getline(file, line)) loop.
ReadLine ==
    /\ pc = "read"
    /\ lineNo < Len(file.lines)
    /\ lineNo' = lineNo + 1
    /\ LET line == file.lines[lineNo + 1] IN
       IF line.type = "empty"
       THEN UNCHANGED <<preVars, clauseCount>>
       ELSE \E type \in TypeRead(line) :
              IF type \in {"a", "e"}
              THEN /\ addQuantifierBlock(IF type = "a" THEN "FORALL" ELSE "EXISTS",
                                         ReadInts(line.ints))
                   /\ UNCHANGED <<clauses, assignments, clauseCount>>
              ELSE IF type = "num" /\ ReadClause(line.ints) # <<>>
              THEN /\ addClause(ReadClause(line.ints))
                   /\ clauseCount' = clauseCount + 1
                   /\ UNCHANGED <<quantifierBlocks, varToQuantifier, varToBlockIndex,
                                  assignments>>
              ELSE UNCHANGED <<preVars, clauseCount>>
    /\ UNCHANGED <<pc, ppLocals, solveVars, genVars, file, readResult>>

\* End of file: readQBF returns true (line 142) and main goes on to preprocess().
ReadReturn ==
    /\ pc = "read"
    /\ lineNo = Len(file.lines)
    /\ readResult' = "true"
    /\ pc' = "build"
    /\ UNCHANGED <<preVars, ppLocals, solveVars, genVars, file, lineNo, clauseCount>>

NextRead ==
    \/ ReadOpen
    \/ ReadLine
    \/ ReadReturn

SpecRead == InitRead /\ [][NextRead]_vars

----------------------------------------------------------------------------
\* blocksqbf.c: the generator of random instances
\*
\* The arrays of the C program are functions on 0..n-1, a clause is the
\* sequence of its int literals, a slot of clause_table is the sequence of the
\* clauses chained by hash_next, and a line of out is [type, ints] as readQBF
\* reads it. rand() is a free choice.

GenBlocks == 3
GenSize == 2
GenVars == 3
GenClauses == 4
GenDup == 2

primes == <<1000003, 1000033, 1000037, 1000039, 1000081, 1000099>>

num_primes == Len(primes)

RECURSIVE SumTo(_, _)
SumTo(f, n) == IF n = 0 THEN 0 ELSE f[n - 1] + SumTo(f, n - 1)

num_vars == SumTo(block_sizes, num_blocks)

clause_len == SumTo(perblock_nums, num_blocks)

maxblockids == [i \in 0..(num_blocks - 1) |-> SumTo(block_sizes, i + 1)]

minblockids == [i \in 0..(num_blocks - 1) |-> IF i = 0 THEN 1 ELSE maxblockids[i - 1] + 1]

\* hash: the sum of lit * primes[i] in unsigned arithmetic. The signed sum
\* stays small here; the unsigned value is the sum itself, or the sum plus
\* 2^32 when it is negative.
RECURSIVE SignedHash(_, _)
SignedHash(c, i) ==
    IF i > Len(c) THEN 0
    ELSE c[i] * primes[((i - 1) % num_primes) + 1] + SignedHash(c, i + 1)

\* hash (clause) % num_clauses, with 2^32 = 65536 * 65536.
Slot(c) ==
    LET h == SignedHash(c, 1)
        n == num_clauses
    IN  IF h >= 0 THEN h % n
        ELSE ((h % n) + ((65536 % n) * (65536 % n))) % n

\* Mutant of compare_clauses: the result is the wrong way round.
compare_clausesInverted(c1, c2) == IF c1 = c2 THEN 1 ELSE 0

\* compare_clauses: 0 when the literal sequences are equal.
compare_clauses(c1, c2) ==
    IF \E j \in 1..clause_len : c1[j] # c2[j] THEN 1 ELSE 0

\* find_clause: the position in the chain of the slot where the walk stops,
\* Len + 1 for the null pointer at its end.
find_clause(c) ==
    LET chain == clause_table[Slot(c)]
        hits == {k \in DOMAIN chain : compare_clauses(chain[k], c) = 0}
    IN  IF hits = {} THEN Len(chain) + 1
        ELSE CHOOSE k \in hits : \A m \in hits : k <= m

Abs(x) == IF x < 0 THEN -x ELSE x

\* sort_clause: the literals in increasing order of their variables.
RECURSIVE sort_clause(_)
sort_clause(c) ==
    IF c = <<>> THEN <<>>
    ELSE LET k == CHOOSE i \in DOMAIN c :
                     \A j \in DOMAIN c : Abs(c[i]) < Abs(c[j]) \/ (Abs(c[i]) = Abs(c[j]) /\ i <= j)
         IN  <<c[k]>> \o sort_clause(SubSeq(c, 1, k - 1) \o SubSeq(c, k + 1, Len(c)))

\* Mutant of FirstBlockType: the outermost block is existential whatever the
\* number of blocks.
FirstBlockTypeAlwaysE(n) == "e"

\* The quantifier of the outermost block (line 579).
FirstBlockType(n) == IF n % 2 = 1 THEN "e" ELSE "a"

\* print_config (..., out, 1): comment lines.
ConfigLines == [i \in 1..(10 + 4 * num_blocks) |-> [type |-> "c", ints |-> <<>>]]

\* Lines 575-588: the preamble and the quantifier blocks.
PrefixLines ==
    LET other(t) == IF t = "e" THEN "a" ELSE "e"
        first == FirstBlockType(num_blocks)
    IN  [i \in 1..num_blocks |->
            [type |-> IF (i - 1) % 2 = 0 THEN first ELSE other(first),
             ints |-> [j \in 1..(block_sizes[i - 1] + 1) |->
                          IF j <= block_sizes[i - 1] THEN minblockids[i - 1] + j - 1 ELSE 0]]]

\* print_clause.
ClauseLine(c) == [type |-> "num", ints |-> Append(c, 0)]

RECURSIVE TableLines(_)
TableLines(i) ==
    IF i = num_clauses THEN <<>>
    ELSE [k \in DOMAIN clause_table[i] |-> ClauseLine(clause_table[i][k])] \o TableLines(i + 1)

\* The options as the command line gives them: isposintstr admits positive
\* numbers only. At most GenVars variables in all.
InitGen ==
    /\ pc = "gen_main"
    /\ Constructed
    /\ ReadIdle
    /\ num_blocks \in 1..GenBlocks
    /\ num_clauses \in 1..GenClauses
    /\ block_sizes \in [0..(num_blocks - 1) -> 1..GenSize]
    /\ SumTo(block_sizes, num_blocks) <= GenVars
    /\ perblock_nums \in [0..(num_blocks - 1) -> 1..GenSize]
    /\ dup_resolve_limit \in 1..GenDup
    /\ sort_clauses \in BOOLEAN
    /\ varmarks = {}
    /\ clause_lits = <<>>
    /\ block = 0
    /\ blocklitcnt = 0
    /\ curclause = 0
    /\ clause_table = <<>>
    /\ dup_resolve_tries = 0
    /\ out = <<>>
    /\ dupRun = 0

pipeVars == <<preVars, ppLocals, solveVars, readVars>>

\* parse_args_and_setup, lines 483-491, and main up to the first clause: the
\* tables, the preamble and the prefix.
Setup ==
    /\ pc = "gen_main"
    /\ IF \E i \in 0..(num_blocks - 1) : perblock_nums[i] > block_sizes[i]
       THEN /\ pc' = "gen_failure"
            /\ UNCHANGED <<clause_table, out>>
       ELSE /\ pc' = "gen_clause"
            /\ clause_table' = [i \in 0..(num_clauses - 1) |-> <<>>]
            /\ out' = ConfigLines
                        \o <<[type |-> "p", ints |-> <<num_vars, num_clauses>>]>>
                        \o PrefixLines
    /\ dup_resolve_tries' = 0
    /\ curclause' = 0
    /\ UNCHANGED <<pipeVars, optVars, varmarks, clause_lits, block, blocklitcnt, dupRun>>

\* The head of the for (curclause ...) loop, lines 595-599.
NextClause ==
    /\ pc = "gen_clause"
    /\ IF curclause < num_clauses
       THEN /\ varmarks' = {}
            /\ clause_lits' = <<>>
            /\ block' = 0
            /\ blocklitcnt' = 0
            /\ pc' = "gen_lit"
       ELSE /\ pc' = "gen_print"
            /\ UNCHANGED <<varmarks, clause_lits, block, blocklitcnt>>
    /\ UNCHANGED <<pipeVars, optVars, curclause, clause_table, dup_resolve_tries, out, dupRun>>

\* Mutant of DrawLiteral: the mark of the variable is not looked at.
DrawLiteralUnmarked ==
    /\ pc = "gen_lit"
    /\ block < num_blocks
    /\ \E var \in minblockids[block]..maxblockids[block] : \E negate \in BOOLEAN :
          /\ varmarks' = varmarks \cup {var}
          /\ clause_lits' = Append(clause_lits, IF negate THEN -var ELSE var)
          /\ IF blocklitcnt + 1 < perblock_nums[block]
             THEN blocklitcnt' = blocklitcnt + 1 /\ UNCHANGED block
             ELSE blocklitcnt' = 0 /\ block' = block + 1
    /\ UNCHANGED <<pipeVars, optVars, pc, curclause, clause_table, dup_resolve_tries, out,
                   dupRun>>

\* One turn of the for (blocklitcnt ...) loop, lines 608-630, with the step
\* to the next block when the block has its literals.
DrawLiteral ==
    /\ pc = "gen_lit"
    /\ block < num_blocks
    /\ \E var \in minblockids[block]..maxblockids[block] : \E negate \in BOOLEAN :
          IF var \in varmarks
          THEN UNCHANGED <<varmarks, clause_lits, blocklitcnt, block>>
          ELSE /\ varmarks' = varmarks \cup {var}
               /\ clause_lits' = Append(clause_lits, IF negate THEN -var ELSE var)
               /\ IF blocklitcnt + 1 < perblock_nums[block]
                  THEN blocklitcnt' = blocklitcnt + 1 /\ UNCHANGED block
                  ELSE blocklitcnt' = 0 /\ block' = block + 1
    /\ UNCHANGED <<pipeVars, optVars, pc, curclause, clause_table, dup_resolve_tries, out,
                   dupRun>>

\* The clause as find_clause gets it (lines 635-636).
Generated == IF sort_clauses THEN sort_clause(clause_lits) ELSE clause_lits

\* Lines 644-651: the clause is new and goes to the end of its chain.
InsertClause ==
    /\ pc = "gen_lit"
    /\ block = num_blocks
    /\ find_clause(Generated) = Len(clause_table[Slot(Generated)]) + 1
    /\ clause_table' = [clause_table EXCEPT ![Slot(Generated)] = Append(@, Generated)]
    /\ dup_resolve_tries' = 0
    /\ dupRun' = 0
    /\ curclause' = curclause + 1
    /\ pc' = "gen_clause"
    /\ UNCHANGED <<pipeVars, optVars, varmarks, clause_lits, block, blocklitcnt, out>>

\* Mutant of DuplicateClause: the counter is raised before it is compared with
\* the limit.
DuplicateClauseCountsFirst ==
    /\ pc = "gen_lit"
    /\ block = num_blocks
    /\ find_clause(Generated) <= Len(clause_table[Slot(Generated)])
    /\ dupRun' = dupRun + 1
    /\ dup_resolve_tries' = dup_resolve_tries + 1
    /\ pc' = IF dup_resolve_tries' = dup_resolve_limit THEN "gen_print" ELSE "gen_clause"
    /\ UNCHANGED <<pipeVars, optVars, varmarks, clause_lits, block, blocklitcnt, curclause,
                   clause_table, out>>

\* Lines 652-672: the clause is in the table already.
DuplicateClause ==
    /\ pc = "gen_lit"
    /\ block = num_blocks
    /\ find_clause(Generated) <= Len(clause_table[Slot(Generated)])
    /\ dupRun' = dupRun + 1
    /\ IF dup_resolve_tries = dup_resolve_limit
       THEN /\ pc' = "gen_print"
            /\ UNCHANGED dup_resolve_tries
       ELSE /\ pc' = "gen_clause"
            /\ dup_resolve_tries' = dup_resolve_tries + 1
    /\ UNCHANGED <<pipeVars, optVars, varmarks, clause_lits, block, blocklitcnt, curclause,
                   clause_table, out>>

\* Lines 679-687: the clauses of the table, slot by slot.
PrintClauses ==
    /\ pc = "gen_print"
    /\ out' = out \o TableLines(0)
    /\ pc' = "gen_done"
    /\ UNCHANGED <<pipeVars, optVars, varmarks, clause_lits, block, blocklitcnt, curclause,
                   clause_table, dup_resolve_tries, dupRun>>

NextGen ==
    \/ Setup
    \/ NextClause
    \/ DrawLiteral
    \/ InsertClause
    \/ DuplicateClause
    \/ PrintClauses

SpecGen == InitGen /\ [][NextGen]_vars

----------------------------------------------------------------------------
\* Reference semantics of a prenex-CNF QBF (the game of QBFSolver.h:16-20)

LitTrue(l, a) == l.variable \in DOMAIN a /\ a[l.variable] # l.isNegated

LitFalse(l, a) == l.variable \in DOMAIN a /\ a[l.variable] = l.isNegated

MatrixTrue(cls, a) == \A i \in DOMAIN cls : \E j \in DOMAIN cls[i] : LitTrue(cls[i][j], a)

\* The existential player wins from the position a: the variables of order
\* are chosen in turn, an existential one by him and a universal one by the
\* opponent, so an existential choice depends on the earlier universal ones only.
RECURSIVE GameValue(_, _, _, _)
GameValue(order, qmap, cls, a) ==
    IF order = <<>> THEN MatrixTrue(cls, a)
    ELSE LET v == Head(order)
             rest == Tail(order)
         IN  IF v \in DOMAIN a THEN GameValue(rest, qmap, cls, a)
             ELSE IF qmap[v] = "EXISTS"
                  THEN \/ GameValue(rest, qmap, cls, MapPut(a, v, TRUE))
                       \/ GameValue(rest, qmap, cls, MapPut(a, v, FALSE))
                  ELSE /\ GameValue(rest, qmap, cls, MapPut(a, v, TRUE))
                       /\ GameValue(rest, qmap, cls, MapPut(a, v, FALSE))

BlocksOf(v) ==
    {i \in DOMAIN quantifierBlocks :
        \E j \in DOMAIN quantifierBlocks[i].variables : quantifierBlocks[i].variables[j] = v}

\* Each clause variable is declared in exactly one prefix block.
WellFormed == \A v \in MatrixVars(matrix0) : Cardinality(BlocksOf(v)) = 1

\* The truth value of the QBF handed to preprocess().
OriginalTrue ==
    GameValue(PrefixOrder(quantifierBlocks), BuildVarToQuantifier(quantifierBlocks),
              matrix0, EmptyMap)

\* The truth value of the QBF preprocess() leaves: the prefix restricted to the
\* unassigned variables, over the final clause set.
ResidualTrue ==
    LET Free(v) == v \notin DOMAIN assignments
    IN  GameValue(SelectSeq(PrefixOrder(quantifierBlocks), Free),
                  BuildVarToQuantifier(quantifierBlocks), clauses, EmptyMap)

----------------------------------------------------------------------------
\* The pipeline as functions of its input

\* The unit of the first unit clause, in matrix position, whose literal is in cands.
FirstUnit(cls, cands) ==
    LET At(i) == Len(cls[i]) = 1 /\ cls[i][1] \in cands
    IN  cls[CHOOSE i \in DOMAIN cls : At(i) /\ \A k \in DOMAIN cls : At(k) => i <= k][1]

\* unitPropagate with the candidates of one block tried in matrix position
\* order (what a stable sort gives): the clause set, the assignment and the
\* block index map it ends with.
RECURSIVE unitPropagateStable(_, _, _, _)
unitPropagateStable(cls, idx0, qmap, asg) ==
    LET idx == IndexAfterCollect(cls, idx0)
        cands == UnitCandidatesOf(cls, idx0, qmap, asg)
    IN  IF cands = {} THEN [clauses |-> cls, assignments |-> asg, varToBlockIndex |-> idx]
        ELSE LET unit == FirstUnit(cls, cands)
             IN  unitPropagateStable(PropagateUnit(unit, cls), idx, qmap,
                                     MapPut(asg, unit.variable, ~unit.isNegated))

\* preprocess() over unitPropagateStable: the final clause set and assignment.
RECURSIVE preprocessStable(_, _, _, _, _)
preprocessStable(cls, blocks, idx, qmap, asg) ==
    IF HasEmpty(cls) THEN [clauses |-> cls, assignments |-> asg]
    ELSE LET u == unitPropagateStable(cls, idx, qmap, asg)
             todo == PureAssignments(u.clauses, blocks, u.varToBlockIndex, u.assignments)
             asg2 == ApplyAssignments(u.assignments, todo)
             cls2 == IF todo # {} THEN simplifyClauses(u.clauses, asg2) ELSE u.clauses
         IN  IF u.assignments # asg \/ todo # {}
             THEN preprocessStable(cls2, blocks, u.varToBlockIndex, qmap, asg2)
             ELSE [clauses |-> cls2, assignments |-> asg2]

\* solve_recursive as a function of the working state it is called in: the
\* value it returns and the working state it leaves. first is the polarity
\* tried first (true in the code, lines 275 and 317).
RECURSIVE solve_recursive(_, _, _, _, _)
solve_recursive(cls, asg, blocks, qmap, first) ==
    LET base == BaseCase([clauses |-> cls, assignments |-> asg, quantifierBlocks |-> blocks])
        var == findNextUnassignedVar(blocks, asg)
        Leave(value, c, a) == [value |-> value, clauses |-> c, assignments |-> a]
    IN  IF base # "NONE" THEN Leave(base, cls, asg)
        ELSE LET r1 == solve_recursive(simplifyWithAssignment(cls, var, first),
                                       assignVariable(asg, var, first), blocks, qmap, first)
                 undone1 == unassignVariable(r1.assignments, var)
                 r2 == solve_recursive(simplifyWithAssignment(restoreClauses(cls), var, ~first),
                                       assignVariable(undone1, var, ~first), blocks, qmap, first)
                 undone2 == unassignVariable(r2.assignments, var)
             IN  IF qmap[var] = "EXISTS"
                 THEN IF r1.value = "SAT" THEN r1
                      ELSE IF r2.value = "SAT" THEN r2
                      ELSE Leave("UNSAT", restoreClauses(cls), undone2)
                 ELSE IF r1.value = "UNSAT" THEN Leave("UNSAT", restoreClauses(cls), undone1)
                      ELSE IF r2.value = "UNSAT" THEN Leave("UNSAT", restoreClauses(cls), undone2)
                      ELSE r2

\* solve() as a function of the snapshot (lines 115-126).
solve(cls, asg, blocks, first) ==
    IF Len(cls) = 0 THEN [value |-> "SAT", clauses |-> cls, assignments |-> asg]
    ELSE IF hasEmptyClauseS(cls) THEN [value |-> "UNSAT", clauses |-> cls, assignments |-> asg]
    ELSE solve_recursive(cls, asg, blocks, BuildVarToQuantifier(blocks), first)

\* The step model and the function agree on what solve() returns and leaves.
SolveAgrees ==
    pc = "done" =>
        LET r == solve(clauses, assignments, quantifierBlocks, TRUE)
        IN  /\ result = r.value
            /\ solver.assignments = r.assignments
            /\ solver.clauses = r.clauses

----------------------------------------------------------------------------
\* Claims

\* C1: if preprocess() followed by solve() returns SAT on a QBF whose clause
\* variables are each declared in exactly one block, the QBF is true under
\* game semantics.
C1_SatIsTrue ==
    (pc = "done" /\ WellFormed /\ result = "SAT") => OriginalTrue

\* C2: if preprocess() followed by solve() returns UNSAT on a QBF whose clause
\* variables are each declared in exactly one block, the QBF is false under
\* game semantics.
C2_UnsatIsFalse ==
    (pc = "done" /\ WellFormed /\ result = "UNSAT") => ~OriginalTrue

\* C2 witness: a run in which the search, not the preprocessor, found UNSAT.
C2_Witness ==
    /\ pc = "done"
    /\ WellFormed
    /\ result = "UNSAT"
    /\ ~HasEmpty(clauses)
    /\ ret = "UNSAT"

\* C3: preprocess() preserves the truth value: the residual QBF is true
\* exactly when the original QBF is true.
C3_PreprocessPreservesTruth ==
    (pc = "preprocessed" /\ WellFormed) => (ResidualTrue <=> OriginalTrue)

\* C4: for the prefix forall x1 exists x2 and the matrix {(x1, x2), (x1, ~x2)}
\* the pipeline returns UNSAT.
C4_Scenario3Unsat ==
    ( /\ pc = "done"
      /\ quantifierBlocks = << [type |-> "FORALL", variables |-> <<1>>],
                               [type |-> "EXISTS", variables |-> <<2>>] >>
      /\ matrix0 = << <<Literal(1, FALSE), Literal(2, FALSE)>>,
                      <<Literal(1, FALSE), Literal(2, TRUE)>> >> )
    => result = "UNSAT"

\* C5: every time a decision is undone, the working clause set and the working
\* assignment equal their values immediately before the variable was decided.
C5_UndoRestoresState ==
    pc = "backtracked" =>
        /\ solver.clauses = Top.savedClauses
        /\ solver.assignments = Top.assignmentsBefore

\* C6: after solve() returns, with either verdict, the working clause set and
\* the working assignment equal those of the snapshot taken from the preprocessor.
C6_SolveRestoresSnapshot ==
    pc = "done" =>
        /\ solver.clauses = clauses
        /\ solver.assignments = assignments

\* C7: after preprocess(), no clause of the final clause set contains a literal
\* on a variable the final assignment assigns.
C7_NoAssignedLiteral ==
    pc = "preprocessed" => MatrixVars(clauses) \cap DOMAIN assignments = {}

\* C7 witness: preprocess() assigned a variable that occurred in the matrix
\* and left clauses behind.
C7_Witness ==
    /\ pc = "preprocessed"
    /\ clauses # <<>>
    /\ ~HasEmpty(clauses)
    /\ MatrixVars(matrix0) \cap DOMAIN assignments # {}

\* C8: after preprocess(), an empty clause in the final clause set is the only
\* clause of the set.
C8_EmptyClauseAlone ==
    (pc = "preprocessed" /\ HasEmpty(clauses)) => clauses = << <<>> >>

\* C9: preprocess() returns false exactly when the final clause set contains
\* an empty clause.
C9_ReturnAgreesWithState ==
    pc = "preprocessed" => (ppResult = FALSE <=> HasEmpty(clauses))

\* C9 witness: preprocess() returned false on an empty clause it derived itself.
C9_Witness ==
    /\ pc = "preprocessed"
    /\ ppResult = FALSE
    /\ ~HasEmpty(matrix0)

\* C10: when preprocess() ends with an empty clause set, the final assignment
\* makes a literal of every original clause true; when it ends with an empty
\* clause, the final assignment makes every literal of some original clause false.
C10_PreprocessSound ==
    pc = "preprocessed" =>
        /\ clauses = <<>> => MatrixTrue(matrix0, assignments)
        /\ HasEmpty(clauses) =>
              \E i \in DOMAIN matrix0 :
                  \A j \in DOMAIN matrix0[i] : LitFalse(matrix0[i][j], assignments)

\* C10 witness: preprocess() ended with an empty clause that it derived from
\* a non-empty original clause.
C10_Witness ==
    /\ pc = "preprocessed"
    /\ HasEmpty(clauses)
    /\ ~HasEmpty(matrix0)
    /\ Len(matrix0) = 2

\* C11: the outcome of preprocess() followed by solve() does not depend on how
\* the sort orders unit clauses of the same block: the final assignment of the
\* preprocessor and the verdict are those of the run that tries such
\* candidates in matrix position order.
C11_TieOrderIrrelevant ==
    pc = "done" =>
        LET p == preprocessStable(matrix0, quantifierBlocks,
                                  BuildVarToBlockIndex(quantifierBlocks),
                                  varToQuantifier, EmptyMap)
        IN  /\ assignments = p.assignments
            /\ result = solve(p.clauses, p.assignments, quantifierBlocks, TRUE).value

\* C12: the verdict of solve() does not depend on the polarity order: on every
\* snapshot the search that tries false before true returns the verdict of
\* the search that tries true before false.
C12_PolarityOrderIrrelevant ==
    pc = "done" =>
        solve(clauses, assignments, quantifierBlocks, FALSE).value = result

\* The search started on the working formula of frame f simplified with
\* f.var = value returns SAT.
SubSearchSat(f, value) ==
    solve_recursive(simplifyWithAssignment(f.savedClauses, f.var, value),
                    assignVariable(f.assignmentsBefore, f.var, value),
                    solver.quantifierBlocks, solver.varToQuantifier, TRUE).value = "SAT"

\* C13: the verdict of the search is compositional: a call that decides an
\* existential variable returns SAT exactly when the search started on the
\* formula simplified with the variable true, or the one started on the
\* formula simplified with it false, returns SAT; a call that decides a
\* universal variable returns SAT exactly when both do.
C13_Compositional ==
    [][ Len(stack') < Len(stack) =>
            ( ret' = "SAT" <=>
                IF Top.qtype = "EXISTS"
                THEN SubSearchSat(Top, TRUE) \/ SubSearchSat(Top, FALSE)
                ELSE SubSearchSat(Top, TRUE) /\ SubSearchSat(Top, FALSE) ) ]_vars

\* The universal variables of a strictly earlier block that occur together
\* with y in clause c.
EarlierUniversals(y, c) ==
    {x \in ClauseVars(c) :
        /\ y \in ClauseVars(c)
        /\ x \in DOMAIN varToQuantifier
        /\ varToQuantifier[x] = "FORALL"
        /\ varToBlockIndex[x] < varToBlockIndex[y]}

AssignedExistentials ==
    {y \in DOMAIN assignments : y \in DOMAIN varToQuantifier /\ varToQuantifier[y] = "EXISTS"}

\* C14 as stated: after preprocess(), for every assigned existential y, every
\* universal of a strictly earlier block that occurs with y in an original
\* clause is assigned or no longer occurs in the final clause set.
C14_AdmissibleOriginal ==
    pc = "preprocessed" =>
        \A y \in AssignedExistentials : \A i \in DOMAIN matrix0 :
            \A x \in EarlierUniversals(y, matrix0[i]) :
                x \in DOMAIN assignments \/ x \notin MatrixVars(clauses)

\* C14, amended: after preprocess(), for every assigned existential y and
\* every original clause in which y occurs with a universal of a strictly
\* earlier block, that universal is assigned or the final assignment makes a
\* literal of the clause on a third variable true (the clause was deleted
\* before y was assigned).
C14_AdmissibleCurrent ==
    pc = "preprocessed" =>
        \A y \in AssignedExistentials : \A i \in DOMAIN matrix0 :
            \A x \in EarlierUniversals(y, matrix0[i]) :
                \/ x \in DOMAIN assignments
                \/ \E j \in DOMAIN matrix0[i] :
                      /\ matrix0[i][j].variable # y
                      /\ LitTrue(matrix0[i][j], assignments)

\* C14 witness: preprocess() assigned an existential that occurs in an
\* original clause with an earlier universal which it left unassigned.
C14_Witness ==
    /\ pc = "preprocessed"
    /\ \E y \in AssignedExistentials : \E i \in DOMAIN matrix0 :
          \E x \in EarlierUniversals(y, matrix0[i]) : x \notin DOMAIN assignments

\* C15: on every prefix and clause set that addQuantifierBlock and addClause
\* accept, a clause on a variable listed in no block included, preprocess()
\* and solve() return a value: no exception leaves them.
C15_NeverThrows ==
    pc # "thrown"

\* C16: solve() leaves the preprocessor unchanged: no step from the call of
\* solve() to its return changes the preprocessor's clause set, assignment or
\* prefix, and a second solve() starts from the snapshot the first one took.
C16_SolveLeavesPreprocessor ==
    [][ /\ pc \in {"preprocessed", "call", "return", "backtracked", "done"} =>
              UNCHANGED <<clauses, assignments, quantifierBlocks>>
        /\ (pc = "done" /\ entry'.calls = 2) =>
              /\ solver'.clauses = entry.clauses
              /\ solver'.assignments = entry.assignments
              /\ solver'.quantifierBlocks = entry.quantifierBlocks ]_vars

\* C16 witness: a second solve() has returned from a search on a preprocessor
\* whose first solve() left its working assignment changed.
C16_Witness ==
    /\ pc = "done"
    /\ entry.calls = 2
    /\ ret # "NONE"
    /\ solver.assignments # assignments

\* The number of prefix variables that asg leaves unassigned.
NumUnassigned(blocks, asg) == Cardinality(PrefixVars(blocks) \ DOMAIN asg)

\* Every active call but the outermost was made with strictly fewer unassigned
\* prefix variables than its caller had on entry, and the recursion depth is at
\* most the number of prefix variables unassigned at entry to solve().
DepthBounded ==
    pc \in {"call", "return", "backtracked"} =>
        /\ solver.depth = Len(stack)
        /\ Len(stack) <= NumUnassigned(entry.quantifierBlocks, entry.assignments)
        /\ \A i \in DOMAIN stack :
              LET callee == IF i < Len(stack) THEN stack[i + 1].assignmentsBefore
                                              ELSE solver.assignments
              IN  (i < Len(stack) \/ pc = "call") =>
                      NumUnassigned(solver.quantifierBlocks, callee)
                          < NumUnassigned(solver.quantifierBlocks, stack[i].assignmentsBefore)

\* C17: the search terminates on every snapshot: a call of solve_recursive
\* returns at once or calls with strictly fewer unassigned prefix variables,
\* the recursion depth never exceeds the number of prefix variables
\* unassigned at entry to solve(), and solve() returns.
C17_SearchTerminates ==
    /\ []DepthBounded
    /\ (pc = "call") ~> (pc = "done")

\* C17 witness: the recursion is as deep as the snapshot has unassigned
\* variables, two or more.
C17_Witness ==
    /\ pc = "call"
    /\ Len(stack) >= 2
    /\ Len(stack) = NumUnassigned(entry.quantifierBlocks, entry.assignments)

\* The step assigns a variable that was unassigned and occurred in the clause set.
AssignsOccurring ==
    \E v \in MatrixVars(clauses) \ DOMAIN assignments : v \in DOMAIN assignments'

\* A pass of unitPropagate continues, and unitPropagate or preprocess() raises
\* its changed flag, only on such an assignment; a sweep of
\* pureLiteralElimination that changes anything makes one; the loop of
\* preprocess() repeats only with the flag raised.
PassesProgress ==
    /\ (pc = "pp_unit" /\ pc' = "pp_unit") => AssignsOccurring
    /\ (~unitChanged /\ unitChanged') => AssignsOccurring
    /\ (~changed /\ changed') => (unitChanged \/ AssignsOccurring)
    /\ (pc = "pp_pure" /\ (assignments' # assignments \/ clauses' # clauses)) => AssignsOccurring
    /\ (pc = "pp_pure" /\ pc' = "pp_loop") => changed'

\* C18: preprocess() terminates: every pass of unit propagation and every
\* pure-literal sweep that reports a change assigns a previously unassigned
\* variable that occurred in the clause set, the outer loop repeats only
\* after such a change, and preprocess() returns.
C18_PreprocessTerminates ==
    /\ [][PassesProgress]_vars
    /\ (pc = "pp_loop") ~> (pc = "preprocessed")

\* C18 witness: preprocess() returned from an iteration that changed nothing,
\* after iterations that assigned variables and left clauses.
C18_Witness ==
    /\ pc = "preprocessed"
    /\ ~changed
    /\ DOMAIN assignments # {}
    /\ clauses # <<>>
    /\ ~HasEmpty(clauses)

\* C19: solve() decides a trivial snapshot without branching on any variable:
\* once it has been called on an empty clause set it has returned SAT, once
\* it has been called on a clause set with an empty clause it has returned
\* UNSAT, whatever the prefix, and no variable was decided.
C19_TrivialSnapshots ==
    (entry.calls > 0 /\ (entry.clauses = <<>> \/ HasEmpty(entry.clauses))) =>
        /\ pc = "done"
        /\ result = (IF entry.clauses = <<>> THEN "SAT" ELSE "UNSAT")
        /\ stack = <<>>
        /\ solver.depth = 0
        /\ solver.assignments = entry.assignments
        /\ solver.clauses = entry.clauses

\* C19 witness: solve() returned on a snapshot that holds an empty clause
\* beside another clause, under a prefix with an unassigned variable.
C19_Witness ==
    /\ pc = "done"
    /\ HasEmpty(entry.clauses)
    /\ Len(entry.clauses) >= 2
    /\ NumUnassigned(entry.quantifierBlocks, entry.assignments) > 0

\* The index maps agree with the prefix: an entry for every listed variable,
\* and every entry names a block that lists the variable, and its type.
MapsAgree ==
    /\ PrefixVars(quantifierBlocks) \subseteq (DOMAIN varToBlockIndex) \cap (DOMAIN varToQuantifier)
    /\ \A v \in DOMAIN varToBlockIndex : (varToBlockIndex[v] + 1) \in BlocksOf(v)
    /\ \A v \in DOMAIN varToQuantifier :
          /\ v \in DOMAIN varToBlockIndex
          /\ (varToBlockIndex[v] + 1) \in DOMAIN quantifierBlocks
          /\ varToQuantifier[v] = quantifierBlocks[varToBlockIndex[v] + 1].type

\* C20: after any sequence of addQuantifierBlock, addClause and preprocess()
\* calls the index maps agree with the prefix, and only addQuantifierBlock
\* changes them.
C20_MapsAgreeWithPrefix ==
    /\ []MapsAgree
    /\ [][ (varToQuantifier' # varToQuantifier \/ varToBlockIndex' # varToBlockIndex) =>
              (pc = "build" /\ Len(quantifierBlocks') = Len(quantifierBlocks) + 1) ]_vars

----------------------------------------------------------------------------
\* Claims about the generator

\* The clauses written to out: the clause lines without their closing 0.
EmittedClauses ==
    LET idx == {i \in DOMAIN out : out[i].type = "num"}
    IN  {SubSeq(out[i].ints, 1, Len(out[i].ints) - 1) : i \in idx}

\* The clauses accepted into the hash table.
TableClauses ==
    UNION {{clause_table[i][k] : k \in DOMAIN clause_table[i]} : i \in DOMAIN clause_table}

\* The positions of c whose variable is an identifier of block i (counted from 0).
PositionsIn(c, i) ==
    {j \in DOMAIN c :
        /\ Abs(c[j]) >= SumTo(block_sizes, i) + 1
        /\ Abs(c[j]) <= SumTo(block_sizes, i + 1)}

BlockShaped(c) ==
    /\ \A i \in 0..(num_blocks - 1) : Cardinality(PositionsIn(c, i)) = perblock_nums[i]
    /\ Len(c) = SumTo(perblock_nums, num_blocks)
    /\ \A j \in DOMAIN c : \A m \in DOMAIN c : j # m => Abs(c[j]) # Abs(c[m])
    /\ \A j \in DOMAIN c : c[j] # 0

\* C21: every clause the generator accepts and every clause it writes has,
\* for each block i, exactly perblock_nums[i] literals on variables of block
\* i's identifier range, clause_len literals in all, and no two literals on
\* the same variable.
C21_ClausesBlockShaped ==
    \A c \in TableClauses \cup EmittedClauses : BlockShaped(c)

\* C21 witness: a finished run on two blocks, two literals from the outer
\* one, that wrote at least two clauses.
C21_Witness ==
    /\ pc = "gen_done"
    /\ num_blocks = 2
    /\ perblock_nums[0] = 2
    /\ Cardinality(EmittedClauses) >= 2

\* The positions of the clause lines of out.
ClauseLineNos == {i \in DOMAIN out : out[i].type = "num"}

\* All the chains of the table, one after the other.
TableSeq == IF clause_table = <<>> THEN <<>> ELSE Flatten([i \in 1..num_clauses |-> clause_table[i - 1]])

NoClauseTwice ==
    /\ \A i \in ClauseLineNos : \A j \in ClauseLineNos : i # j => out[i].ints # out[j].ints
    /\ \A i \in DOMAIN TableSeq : \A j \in DOMAIN TableSeq : i # j => TableSeq[i] # TableSeq[j]

\* C22: no two clauses of the table, and no two clause lines written, have
\* the same literal sequence, and a step that puts a clause into the table
\* puts in one that was not there.
C22_NoDuplicateClause ==
    /\ []NoClauseTwice
    /\ [][clause_table' # clause_table /\ pc = "gen_lit" => Generated \notin TableClauses]_vars

\* C22 witness: a generated clause was found in the table and dropped, and the
\* run went on to write its clauses.
C22_Witness ==
    /\ pc = "gen_done"
    /\ curclause < num_clauses
    /\ Cardinality(ClauseLineNos) >= 2
    /\ dupRun > 0

\* A step of the generator that finds its clause in the table.
DuplicateStep == pc = "gen_lit" /\ dupRun' = dupRun + 1

\* A step of the generator that puts its clause into the table.
InsertStep == pc = "gen_lit" /\ clause_table' # clause_table

\* The clause loop was left by the break of line 659.
Aborted == pc \in {"gen_print", "gen_done"} /\ dupRun > 0

\* C23 as stated: the generator aborts on the dup_resolve_limit-th duplicate
\* in a row, and on no other one.
C23_AbortOnLimitthDuplicate ==
    [][DuplicateStep => (pc' = "gen_print" <=> dupRun' = dup_resolve_limit)]_vars

\* C23, amended: the generator aborts on the duplicate generated when the
\* counter already equals dup_resolve_limit, the (dup_resolve_limit + 1)-th in
\* a row, and on no other one; until then the counter is the number of
\* duplicates in a row; an accepted clause resets it to 0; and a finished run,
\* aborted or not, has written the curclause accepted clauses and no other.
C23_AbortAfterLimitRetries ==
    /\ [][DuplicateStep =>
            /\ pc' = "gen_print" <=> dupRun' = dup_resolve_limit + 1
            /\ pc' = "gen_print" <=> dup_resolve_tries = dup_resolve_limit
            /\ pc' # "gen_print" => dup_resolve_tries' = dupRun']_vars
    /\ [][InsertStep => dup_resolve_tries' = 0 /\ dupRun' = 0]_vars
    /\ [](pc = "gen_done" =>
            /\ EmittedClauses = TableClauses
            /\ Cardinality(ClauseLineNos) = curclause
            /\ Len(TableSeq) = curclause
            /\ (~Aborted => curclause = num_clauses))

\* C23 witness: a run with limit 2 that accepted two clauses, generated three
\* duplicates in a row, broke off and wrote the two clauses.
C23_Witness ==
    /\ pc = "gen_done"
    /\ Aborted
    /\ dup_resolve_limit = 2
    /\ dupRun = 3
    /\ curclause = 2
    /\ Cardinality(ClauseLineNos) = 2

\* The positions of the quantifier block lines of out, outermost first.
BlockLineNos == {i \in DOMAIN out : out[i].type \in {"a", "e"}}

\* The line of block i, counted from the outermost: the block lines follow
\* the preamble line.
BlockLine(i) == out[(CHOOSE p \in DOMAIN out : out[p].type = "p") + 1 + i]

\* C24: once the prefix is written it has num_blocks block lines in a row, the
\* innermost block is existential, blocks next to each other have different
\* quantifiers, and block i from the outermost is existential exactly when
\* num_blocks - 1 - i is even.
C24_PrefixAlternates ==
    out # <<>> =>
        /\ Cardinality(BlockLineNos) = num_blocks
        /\ \A i \in 0..(num_blocks - 1) :
              /\ BlockLine(i).type \in {"a", "e"}
              /\ BlockLine(i).type = "e" <=> (num_blocks - 1 - i) % 2 = 0
        /\ BlockLine(num_blocks - 1).type = "e"
        /\ \A i \in 0..(num_blocks - 2) : BlockLine(i).type # BlockLine(i + 1).type

\* C24 witness: a prefix of two blocks was written, the outer one universal.
C24_Witness ==
    /\ out # <<>>
    /\ num_blocks = 2
    /\ BlockLine(0).type = "a"
    /\ BlockLine(1).type = "e"

----------------------------------------------------------------------------
\* Claims about the reader

\* A line that is neither a comment, a header, a quantifier block nor a clause.
InvalidLine(line) == line.type = "other"

\* A quantifier block line below a clause line.
BlockAfterClause(lines) ==
    \E i \in DOMAIN lines : \E j \in DOMAIN lines :
        i < j /\ lines[i].type = "num" /\ lines[j].type \in {"a", "e"}

Malformed(lines) ==
    \/ \E i \in DOMAIN lines : InvalidLine(lines[i])
    \/ BlockAfterClause(lines)

\* C25: readQBF fails on a file with an invalid line or with a quantifier
\* block line after a clause line: it does not return true on such a file,
\* and main does not go on to preprocess() with the blocks and clauses of one.
C25_ReaderRejects ==
    Malformed(file.lines) => (readResult # "true" /\ pc # "build")

----------------------------------------------------------------------------
\* Claims about the search and the preprocessor, continued

\* C26: at the entry of a solve_recursive call with every prefix variable
\* assigned, the working clause set is empty or holds an empty clause, so the
\* leaf of lines 251-257 returns SAT on an empty clause set only.
C26_LeafClausesDecided ==
    (pc = "call" /\ findNextUnassignedVar(solver.quantifierBlocks, solver.assignments) = -1) =>
        (solver.clauses = <<>> \/ HasEmpty(solver.clauses))

\* The variables that share a clause of the current clause set with v.
Neighbours(v) ==
    UNION {ClauseVars(clauses[i]) : i \in {k \in DOMAIN clauses : v \in ClauseVars(clauses[k])}}
        \ {v}

\* The admissibility test on the current state, as the claim words it.
UnitAdmissible(v) ==
    IF varToQuantifier[v] = "EXISTS"
    THEN ~\E u \in Neighbours(v) :
             /\ varToQuantifier[u] = "FORALL"
             /\ varToBlockIndex[u] < varToBlockIndex[v]
             /\ u \notin DOMAIN assignments
    ELSE ~\E u \in Neighbours(v) :
             /\ varToQuantifier[u] = "EXISTS"
             /\ varToBlockIndex[u] > varToBlockIndex[v]
             /\ u \notin DOMAIN assignments

\* The number of copies of the unit clause (l) in cls.
UnitCopies(l, cls) == Cardinality({i \in DOMAIN cls : cls[i] = <<l>>})

\* The unit literals of the current clause set whose variable fails the test.
RefusedUnits == {l \in UnitLiterals(clauses) : ~UnitAdmissible(l.variable)}

\* C27: a pass of unitPropagate assigns at most one variable; the variable
\* was unassigned, stands alone in a unit clause and passes the admissibility
\* test on the state before the pass; its value is true when the unit
\* literal is positive and false when it is negated; and every unit clause
\* whose variable fails the test is still in the clause set after the pass.
C27_UnitsAdmissible ==
    [][pc = "pp_unit" =>
          /\ \A l \in RefusedUnits : UnitCopies(l, clauses') >= UnitCopies(l, clauses)
          /\ assignments' # assignments =>
                \E l \in UnitLiterals(clauses) :
                    /\ l.variable \notin DOMAIN assignments
                    /\ UnitAdmissible(l.variable)
                    /\ assignments' = MapPut(assignments, l.variable, ~l.isNegated)
          /\ assignments' = assignments => clauses' = clauses]_vars

\* C27 witness: a pass has propagated a unit and left a unit clause whose
\* variable fails the test.
C27_Witness ==
    /\ pc = "pp_unit"
    /\ unitChanged
    /\ RefusedUnits # {}
    /\ \E l \in RefusedUnits : l.variable \notin DOMAIN assignments

\* The polarities with which v occurs in cls (TRUE for a negated occurrence).
Polarities(v, cls) ==
    UNION {{cls[i][j].isNegated : j \in {k \in DOMAIN cls[i] : cls[i][k].variable = v}} :
              i \in DOMAIN cls}

\* Every variable of every block before the block of v is assigned.
EarlierBlocksAssigned(v) ==
    \A b \in DOMAIN quantifierBlocks :
        (b - 1) < varToBlockIndex[v] =>
            \A j \in DOMAIN quantifierBlocks[b].variables :
                quantifierBlocks[b].variables[j] \in DOMAIN assignments

\* C28: a pure-literal sweep changes the value of no assigned variable, and
\* a variable it assigns had, at the start of the sweep, every variable of
\* every earlier block assigned and one polarity only in the clause set; it
\* gets the value that makes its occurrences true, existential or universal.
C28_PureSweepEligible ==
    [][pc = "pp_pure" =>
          /\ \A v \in DOMAIN assignments :
                v \in DOMAIN assignments' /\ assignments'[v] = assignments[v]
          /\ \A v \in (DOMAIN assignments') \ (DOMAIN assignments) :
                /\ EarlierBlocksAssigned(v)
                /\ Cardinality(Polarities(v, clauses)) = 1
                /\ assignments'[v] = (Polarities(v, clauses) = {FALSE})]_vars

\* C28 witness: a sweep that followed no propagation has set a universal
\* variable of a later block to false.
C28_Witness ==
    /\ pc = "pp_loop"
    /\ changed
    /\ ~unitChanged
    /\ \E v \in DOMAIN assignments :
          /\ varToQuantifier[v] = "FORALL"
          /\ varToBlockIndex[v] >= 1
          /\ ~assignments[v]

\* No rule of preprocess() applies to the current state.
Fixpoint ==
    /\ \A l \in UnitLiterals(clauses) : ~UnitAdmissible(l.variable)
    /\ \A v \in PrefixVars(quantifierBlocks) \ DOMAIN assignments :
          EarlierBlocksAssigned(v) => Cardinality(Polarities(v, clauses)) # 1

\* C29: when preprocess() has returned and the clause set has no empty
\* clause, no unit clause has a variable that passes the admissibility test
\* and no unassigned variable with its earlier blocks assigned occurs with
\* one polarity only; and no step of a further preprocess() call on such a
\* state changes the clause set or the assignment.
C29_StopsAtFixpoint ==
    /\ []((pc = "preprocessed" /\ ~HasEmpty(clauses)) => Fixpoint)
    /\ [][(ppCalls' >= 2 /\ ~HasEmpty(clauses)) =>
             (clauses' = clauses /\ assignments' = assignments)]_vars

\* C29 witness: a second preprocess() call has returned on a state that the
\* first call had simplified and that still holds a unit clause.
C29_Witness ==
    /\ pc = "preprocessed"
    /\ ppCalls = 2
    /\ DOMAIN assignments # {}
    /\ UnitLiterals(clauses) # {}
    /\ ~HasEmpty(clauses)

----------------------------------------------------------------------------
\* Claims about the generator, continued

\* The clause count announced by the 'p cnf' line of out.
AnnouncedClauses == out[CHOOSE p \in DOMAIN out : out[p].type = "p"].ints[2]

\* C30: a finished run has written as many clause lines as its 'p cnf' line
\* announces, whether or not the clause loop was aborted.
C30_HeaderCountsClauses ==
    pc = "gen_done" => Cardinality(ClauseLineNos) = AnnouncedClauses

====
